---- MODULE Spec2Model ----
(***************************************************************************)
(* Model of speedracer's RaceTrack (src/src/lib.rs).                       *)
(*                                                                         *)
(* RaceTrack holds a deadline (timeout), the pending racers and the        *)
(* ranking store.  run() takes the pending racers, clears the rankings,    *)
(* spawns one tokio task per racer (each racing the racer's future against *)
(* tokio::time::timeout) and then drains a FuturesUnordered of the         *)
(* JoinHandles, inserting every yielded RaceResult at the next index.      *)
(*                                                                         *)
(* Time is a discrete count of timer ticks per task, taken from the task's *)
(* first poll (`start = Instant::now()`), and saturating at Cap.  Tasks    *)
(* are polled by the runtime at any moment, as on a loaded or              *)
(* multi-threaded runtime; a racer's future is an opaque computation whose *)
(* poll results are inputs.                                                *)
(*                                                                         *)
(* Option<X> is the empty tuple (None) or a one-element tuple (Some).      *)
(* The fields `id` carried by racers and results, the field `own` of a     *)
(* result (the racer's own computation produced it), the field `res` of a  *)
(* result (what the timeout resolved with) and the variables nextId,       *)
(* taken, finishOrder, executed, lastRun and seen are history variables:   *)
(* the code has no such data, the properties are stated with them.         *)
(***************************************************************************)
EXTENDS Integers, Sequences, FiniteSets, TLC

\* ------------------------------------------------------------------ bounds
MaxRacers == 2      \* racers added over the track's lifetime
MaxTimeout == 1     \* the deadline (in ticks) the track is constructed with

Names == {"a", "b"}
Values == {1}
TimeoutText == "Racer timed out"
Messages == {"boom", TimeoutText}

\* Task timers saturate one tick past the largest deadline.
Cap == MaxTimeout + 1

None == <<>>
Some(x) == <<x>>

VARIABLES
    timeout,      \* RaceTrack.timeout
    racers,       \* RaceTrack.racers: the pending list
    rankings,     \* RaceTrack.rankings: BTreeMap<usize, RaceResult>
    pc,           \* "idle": no run() in flight; "run": inside run()
    local,        \* run()'s `racers` local: the part the for loop has not reached
    tasks,        \* run()'s FuturesUnordered: the JoinHandles it still holds
    readyQ,       \* FuturesUnordered's ready-to-run queue
    i,            \* run()'s rank counter
    task,         \* the runtime's spawned tasks of the run in flight
    nextId,       \* history: id of the next racer added
    taken,        \* history: the racers the last run() took, in registration order
    finishOrder,  \* history: ids in the order their tasks produced a RaceResult
    executed,     \* history: how many times each racer was spawned
    lastRun,      \* history: how the last run() ended
    seen          \* history: what rankings() last returned since the last run() began

vars == <<timeout, racers, rankings, pc, local, tasks, readyQ, i, task,
          nextId, taken, finishOrder, executed, lastRun, seen>>

\* ------------------------------------------------------------ racer futures
\* A racer's future is opaque to the track.  What one poll of it returns is
\* an input of the poll: Pending, Ready(Ok(val)), Ready(Err(msg)), or a panic.
Pending == [kind |-> "pending", val |-> 0, msg |-> ""]
FutPolls ==
    {Pending}
    \cup [kind : {"ok"}, val : Values, msg : {""}]
    \cup [kind : {"err"}, val : {0}, msg : Messages]
    \cup [kind : {"panic"}, val : {0}, msg : {""}]

EmptyMap == [k \in {} |-> 0]

\* Mutant of TimeoutPoll: the deadline is never checked.
TimeoutPollNoDeadline(futPoll, deadline, elapsed) ==
    IF futPoll.kind # "pending"
    THEN Some([elapsed |-> FALSE, ok |-> futPoll.kind = "ok",
               val |-> futPoll.val, msg |-> futPoll.msg])
    ELSE None

\* tokio::time::timeout(timeout, fut) polled `elapsed` ticks after its
\* creation: the future is polled first (futPoll), the deadline only if the
\* future is pending.  None while both are pending.
TimeoutPoll(futPoll, deadline, elapsed) ==
    IF futPoll.kind # "pending"
    THEN Some([elapsed |-> FALSE, ok |-> futPoll.kind = "ok",
               val |-> futPoll.val, msg |-> futPoll.msg])
    ELSE IF elapsed >= deadline
         THEN Some([elapsed |-> TRUE, ok |-> FALSE, val |-> 0, msg |-> ""])
         ELSE None

\* Mutant of MakeResult: the racer's own error is dropped by the split.
MakeResultDropsError(id, name, duration, res) ==
    [id |-> id,
     own |-> ~res.elapsed,
     res |-> res,
     name |-> name,
     duration |-> duration,
     disqualified |-> res.elapsed,
     error |-> IF res.elapsed THEN Some(TimeoutText) ELSE None,
     value |-> IF ~res.elapsed /\ res.ok THEN Some(res.val) ELSE None]

\* Mutant of MakeResult: no timeout error is synthesized, the (empty) message
\* of the timeout result is reported as it is.
MakeResultNoSynth(id, name, duration, res) ==
    [id |-> id,
     own |-> ~res.elapsed,
     res |-> res,
     name |-> name,
     duration |-> duration,
     disqualified |-> res.elapsed,
     error |-> IF ~res.elapsed /\ res.ok THEN None ELSE Some(res.msg),
     value |-> IF ~res.elapsed /\ res.ok THEN Some(res.val) ELSE None]

\* The body of the spawned task after the timeout resolved with `res`.
MakeResult(id, name, duration, res) ==
    LET disqualified == res.elapsed
        isOk == ~res.elapsed /\ res.ok
        errMsg == IF res.elapsed THEN TimeoutText ELSE res.msg
    IN [id |-> id,
        own |-> ~res.elapsed,
        res |-> res,
        name |-> name,
        duration |-> duration,
        disqualified |-> disqualified,
        error |-> IF isOk THEN None ELSE Some(errMsg),
        value |-> IF isOk THEN Some(res.val) ELSE None]

\* BTreeMap::insert
MapInsert(m, k, v) == [x \in DOMAIN m \cup {k} |-> IF x = k THEN v ELSE m[x]]

\* Mutant of NextRank: the counter is never advanced.
NextRankStuck(k) == k

\* Mutant of NextRank: the counter is advanced twice.
NextRankSkip(k) == k + 2

\* `i += 1`
NextRank(k) == k + 1

\* A JoinHandle leaving the runtime's bookkeeping once its output was taken
MapRemove(m, k) == [x \in DOMAIN m \ {k} |-> m[x]]

\* BTreeMap::values(): the values in ascending key order
MinKey(S) == CHOOSE k \in S : \A j \in S : k <= j
RECURSIVE MapValues(_)
MapValues(m) ==
    IF DOMAIN m = {} THEN <<>>
    ELSE LET k == MinKey(DOMAIN m) IN <<m[k]>> \o MapValues(MapRemove(m, k))

\* ----------------------------------------------------------------- Init
Init ==
    /\ timeout = MaxTimeout
    /\ racers = <<>>
    /\ rankings = EmptyMap
    /\ pc = "idle"
    /\ local = <<>>
    /\ tasks = {}
    /\ readyQ = <<>>
    /\ i = 0
    /\ task = EmptyMap
    /\ nextId = 1
    /\ taken = <<>>
    /\ finishOrder = <<>>
    /\ executed = [r \in 1..MaxRacers |-> 0]
    /\ lastRun = "none"
    /\ seen = None

\* ------------------------------------------------------------ add_racer
\* Mutant of AddRacer: adding a racer resets the ranking store.
AddRacerResets(name) ==
    /\ pc = "idle"
    /\ nextId <= MaxRacers
    /\ racers' = Append(racers, [id |-> nextId, name |-> name])
    /\ nextId' = nextId + 1
    /\ rankings' = EmptyMap
    /\ UNCHANGED <<timeout, pc, local, tasks, readyQ, i, task,
                   taken, finishOrder, executed, lastRun, seen>>

AddRacer(name) ==
    /\ pc = "idle"
    /\ nextId <= MaxRacers
    /\ racers' = Append(racers, [id |-> nextId, name |-> name])
    /\ nextId' = nextId + 1
    /\ UNCHANGED <<timeout, rankings, pc, local, tasks, readyQ, i, task,
                   taken, finishOrder, executed, lastRun, seen>>

\* ------------------------------------------------------------------ run
\* Mutant of RunStart: the pending list is iterated but not taken.
RunStartKeepsRacers ==
    /\ pc = "idle"
    /\ pc' = "run"
    /\ local' = racers
    /\ rankings' = EmptyMap
    /\ tasks' = {}
    /\ readyQ' = <<>>
    /\ i' = 0
    /\ task' = EmptyMap
    /\ taken' = racers
    /\ finishOrder' = <<>>
    /\ lastRun' = "running"
    /\ seen' = None
    /\ UNCHANGED <<timeout, racers, nextId, executed>>

\* Mutant of RunStart: the previous rankings are not cleared.
RunStartNoClear ==
    /\ pc = "idle"
    /\ pc' = "run"
    /\ local' = racers
    /\ racers' = <<>>
    /\ tasks' = {}
    /\ readyQ' = <<>>
    /\ i' = 0
    /\ task' = EmptyMap
    /\ taken' = racers
    /\ finishOrder' = <<>>
    /\ lastRun' = "running"
    /\ seen' = None
    /\ UNCHANGED <<timeout, rankings, nextId, executed>>

\* run() up to the for loop: take the pending racers, clear the rankings,
\* create the empty FuturesUnordered.
RunStart ==
    /\ pc = "idle"
    /\ pc' = "run"
    /\ local' = racers
    /\ racers' = <<>>
    /\ rankings' = EmptyMap
    /\ tasks' = {}
    /\ readyQ' = <<>>
    /\ i' = 0
    /\ task' = EmptyMap
    /\ taken' = racers
    /\ finishOrder' = <<>>
    /\ lastRun' = "running"
    /\ seen' = None
    /\ UNCHANGED <<timeout, nextId, executed>>

\* One iteration of the for loop: spawn the task and push its JoinHandle.
Spawn ==
    /\ pc = "run"
    /\ local # <<>>
    /\ LET racer == Head(local) IN
        /\ task' = MapInsert(task, racer.id,
                        [state |-> "spawned", name |-> racer.name,
                         timeout |-> timeout, elapsed |-> 0, waker |-> FALSE,
                         out |-> None])
        /\ tasks' = tasks \cup {racer.id}
        /\ readyQ' = Append(readyQ, racer.id)
        /\ executed' = [executed EXCEPT ![racer.id] = @ + 1]
    /\ local' = Tail(local)
    /\ UNCHANGED <<timeout, racers, rankings, pc, i, nextId, taken,
                   finishOrder, lastRun, seen>>

\* Mutant of TaskAfterPoll: the racer's own error is unwrapped in the task,
\* which panics.
TaskAfterPollErrFatal(id, t, futPoll) ==
    LET res == TimeoutPoll(futPoll, t.timeout, t.elapsed) IN
    IF futPoll.kind \in {"panic", "err"} THEN [t EXCEPT !.state = "panicked"]
    ELSE IF res = None THEN [t EXCEPT !.state = "running"]
    ELSE [t EXCEPT !.state = "complete",
                   !.out = Some(MakeResult(id, t.name, t.elapsed, res[1]))]

\* Mutant of TaskAfterPoll: the elapsed timeout is unwrapped in the task,
\* which panics.
TaskAfterPollTimeoutFatal(id, t, futPoll) ==
    LET res == TimeoutPoll(futPoll, t.timeout, t.elapsed) IN
    IF futPoll.kind = "panic" THEN [t EXCEPT !.state = "panicked"]
    ELSE IF res = None THEN [t EXCEPT !.state = "running"]
    ELSE IF res[1].elapsed THEN [t EXCEPT !.state = "panicked"]
    ELSE [t EXCEPT !.state = "complete",
                   !.out = Some(MakeResult(id, t.name, t.elapsed, res[1]))]

\* The task after the runtime polled it, the racer's future returning futPoll.
TaskAfterPoll(id, t, futPoll) ==
    LET res == TimeoutPoll(futPoll, t.timeout, t.elapsed) IN
    IF futPoll.kind = "panic" THEN [t EXCEPT !.state = "panicked"]
    ELSE IF res = None THEN [t EXCEPT !.state = "running"]
    ELSE [t EXCEPT !.state = "complete",
                   !.out = Some(MakeResult(id, t.name, t.elapsed, res[1]))]

\* Mutant of TaskPoll: the racers are driven one after the other, a task is
\* polled only once every task spawned before it has finished.
TaskPollSequential(id, futPoll) ==
    /\ id \in DOMAIN task
    /\ task[id].state \in {"spawned", "running"}
    /\ \A j \in DOMAIN task : j < id => task[j].state \in {"complete", "panicked"}
    /\ LET after == TaskAfterPoll(id, task[id], futPoll)
           done == after.state \in {"complete", "panicked"}
       IN /\ task' = [task EXCEPT ![id] = after]
          /\ readyQ' = IF done /\ task[id].waker
                       THEN Append(readyQ, id) ELSE readyQ
          /\ finishOrder' = IF after.state = "complete"
                            THEN Append(finishOrder, id) ELSE finishOrder
    /\ UNCHANGED <<timeout, racers, rankings, pc, local, tasks, i, nextId,
                   taken, executed, lastRun, seen>>

\* The runtime polls a spawned task (the first poll arms its timer).  On
\* completion (RaceResult or panic) the JoinHandle's waker, if registered,
\* puts the handle back on the ready queue.
TaskPoll(id, futPoll) ==
    /\ id \in DOMAIN task
    /\ task[id].state \in {"spawned", "running"}
    /\ LET after == TaskAfterPoll(id, task[id], futPoll)
           done == after.state \in {"complete", "panicked"}
       IN /\ task' = [task EXCEPT ![id] = after]
          /\ readyQ' = IF done /\ task[id].waker
                       THEN Append(readyQ, id) ELSE readyQ
          /\ finishOrder' = IF after.state = "complete"
                            THEN Append(finishOrder, id) ELSE finishOrder
    /\ UNCHANGED <<timeout, racers, rankings, pc, local, tasks, i, nextId,
                   taken, executed, lastRun, seen>>

\* The timer advances by one tick for every task whose timer is armed.
Tick ==
    /\ \E id \in DOMAIN task : task[id].state = "running" /\ task[id].elapsed < Cap
    /\ task' = [id \in DOMAIN task |->
                  IF task[id].state = "running" /\ task[id].elapsed < Cap
                  THEN [task[id] EXCEPT !.elapsed = @ + 1]
                  ELSE task[id]]
    /\ UNCHANGED <<timeout, racers, rankings, pc, local, tasks, readyQ, i,
                   nextId, taken, finishOrder, executed, lastRun, seen>>

\* tasks.next() takes the head of the ready queue and polls its JoinHandle.
Polling == pc = "run" /\ local = <<>> /\ readyQ # <<>>

\* The handle's task has a RaceResult: insert it at rank i.
Collect ==
    /\ Polling
    /\ LET h == Head(readyQ) IN
        /\ task[h].state = "complete"
        /\ rankings' = MapInsert(rankings, i, task[h].out[1])
        /\ i' = NextRank(i)
        /\ tasks' = tasks \ {h}
        /\ task' = MapRemove(task, h)
    /\ readyQ' = Tail(readyQ)
    /\ UNCHANGED <<timeout, racers, pc, local, nextId, taken, finishOrder,
                   executed, lastRun, seen>>

\* The handle's task is not finished: the handle registers its waker.
Park ==
    /\ Polling
    /\ LET h == Head(readyQ) IN
        /\ task[h].state \in {"spawned", "running"}
        /\ task' = [task EXCEPT ![h].waker = TRUE]
    /\ readyQ' = Tail(readyQ)
    /\ UNCHANGED <<timeout, racers, rankings, pc, local, tasks, i, nextId,
                   taken, finishOrder, executed, lastRun, seen>>

\* Mutant of Abort: the unwinding run() puts the racers it took back on the
\* pending list.
AbortRequeues ==
    /\ Polling
    /\ task[Head(readyQ)].state = "panicked"
    /\ pc' = "idle"
    /\ lastRun' = "aborted"
    /\ tasks' = {}
    /\ readyQ' = <<>>
    /\ task' = EmptyMap
    /\ racers' = taken
    /\ UNCHANGED <<timeout, rankings, local, i, nextId, taken,
                   finishOrder, executed, seen>>

\* The handle's task panicked: result.unwrap() panics and run() unwinds,
\* dropping the FuturesUnordered (the remaining tasks are detached).
Abort ==
    /\ Polling
    /\ task[Head(readyQ)].state = "panicked"
    /\ pc' = "idle"
    /\ lastRun' = "aborted"
    /\ tasks' = {}
    /\ readyQ' = <<>>
    /\ task' = EmptyMap
    /\ UNCHANGED <<timeout, racers, rankings, local, i, nextId, taken,
                   finishOrder, executed, seen>>

\* Mutant of RunReturn: run() returns as soon as no handle is ready.
RunReturnEarly ==
    /\ pc = "run"
    /\ local = <<>>
    /\ readyQ = <<>>
    /\ pc' = "idle"
    /\ lastRun' = "returned"
    /\ UNCHANGED <<timeout, racers, rankings, local, tasks, readyQ, i, task,
                   nextId, taken, finishOrder, executed, seen>>

\* tasks.next() yields None: run() returns.
RunReturn ==
    /\ pc = "run"
    /\ local = <<>>
    /\ tasks = {}
    /\ pc' = "idle"
    /\ lastRun' = "returned"
    /\ UNCHANGED <<timeout, racers, rankings, local, tasks, readyQ, i, task,
                   nextId, taken, finishOrder, executed, seen>>

\* The caller drops the run() future while it is suspended in
\* tasks.next().await; the JoinHandles are dropped, the tasks detached.
Abandon ==
    /\ pc = "run"
    /\ local = <<>>
    /\ readyQ = <<>>
    /\ tasks # {}
    /\ pc' = "idle"
    /\ lastRun' = "abandoned"
    /\ tasks' = {}
    /\ task' = EmptyMap
    /\ UNCHANGED <<timeout, racers, rankings, local, readyQ, i, nextId, taken,
                   finishOrder, executed, seen>>

\* Mutant of RankingsRead: the results are moved out of the store.
RankingsReadDrains ==
    /\ pc = "idle"
    /\ seen' = Some(MapValues(rankings))
    /\ rankings' = EmptyMap
    /\ UNCHANGED <<timeout, racers, pc, local, tasks, readyQ, i, task,
                   nextId, taken, finishOrder, executed, lastRun>>

\* rankings(): the caller reads the ranking.  `&self` cannot be borrowed
\* while a run() future holds `&mut self`, so it is called between runs.
RankingsRead ==
    /\ pc = "idle"
    /\ seen' = Some(MapValues(rankings))
    /\ UNCHANGED <<timeout, racers, rankings, pc, local, tasks, readyQ, i, task,
                   nextId, taken, finishOrder, executed, lastRun>>

Next ==
    \/ \E name \in Names : AddRacer(name)
    \/ RankingsRead
    \/ RunStart
    \/ Spawn
    \/ \E id \in 1..MaxRacers, futPoll \in FutPolls : TaskPoll(id, futPoll)
    \/ Tick
    \/ Collect
    \/ Park
    \/ Abort
    \/ RunReturn
    \/ Abandon

Spec == Init /\ [][Next]_vars

\* The caller awaits run() to its end (`race_track.run().await`), the runtime
\* schedules every runnable task and the timer advances.  A racer's future is
\* not required ever to become ready: only the polls that find it pending
\* are fair.  A racer's name takes no part in the scheduling: one name is
\* used here.
AwaitedNext ==
    \/ AddRacer("a")
    \/ RunStart
    \/ Spawn
    \/ \E id \in 1..MaxRacers, futPoll \in FutPolls : TaskPoll(id, futPoll)
    \/ Tick
    \/ Collect
    \/ Park
    \/ Abort
    \/ RunReturn

Fairness ==
    /\ WF_vars(Spawn)
    /\ WF_vars(Tick)
    /\ \A id \in 1..MaxRacers : WF_vars(TaskPoll(id, Pending))
    /\ WF_vars(Collect)
    /\ WF_vars(Park)
    /\ WF_vars(Abort)
    /\ WF_vars(RunReturn)

LiveSpec == Init /\ [][AwaitedNext]_vars /\ Fairness

\* ------------------------------------------------------------- rankings()
\* What rankings() returns in the current state.
RankingsCall == MapValues(rankings)

\* ------------------------------------------------------------ properties
Returned == pc = "idle" /\ lastRun = "returned"
Count(seq, P(_)) == Cardinality({k \in DOMAIN seq : P(seq[k])})
TakenIds == {taken[k].id : k \in DOMAIN taken}

\* C1: after a run() that returned, rankings() holds exactly one RaceResult
\* per racer that was pending when run() was invoked, carrying that racer's
\* name: as many results as racers taken, and each name as often among the
\* results as among the racers taken (duplicates included).
C1_OneResultPerRacer ==
    Returned =>
        LET got == RankingsCall IN
        /\ Len(got) = Len(taken)
        /\ \A k \in DOMAIN taken :
              Count(got, LAMBDA r : r.id = taken[k].id /\ r.name = taken[k].name) = 1
        /\ \A n \in Names :
              Count(got, LAMBDA r : r.name = n) = Count(taken, LAMBDA t : t.name = n)

\* A run of two racers with the same name has returned.
C1_Witness ==
    /\ Returned
    /\ Len(taken) = 2
    /\ taken[1].name = taken[2].name
    /\ Len(RankingsCall) = 2

\* C2: the k-th outcome to become available is stored at rank k: the
\* ranking follows the order in which the tasks produced their RaceResults.
C2_RankIsCompletionOrder ==
    \A k \in DOMAIN rankings :
        k + 1 \in DOMAIN finishOrder /\ rankings[k].id = finishOrder[k + 1]

\* C3: a result is disqualified iff the deadline elapsed before the racer's
\* computation produced an outcome.
DeadlineBeforeOutcome(r) ==
    IF r.own THEN r.duration > timeout ELSE r.duration >= timeout
C3_DisqualifiedIffDeadlineFirst ==
    \A k \in DOMAIN rankings :
        rankings[k].disqualified <=> DeadlineBeforeOutcome(rankings[k])

\* C4: every RaceResult in rankings() has exactly one of value and error.
C4_Exclusivity ==
    LET got == RankingsCall IN
    \A k \in DOMAIN got : (got[k].value = None) # (got[k].error = None)

\* Results of both shapes are ranked: one with a value, one with an error.
C4_Witness ==
    /\ \E k \in DOMAIN RankingsCall : RankingsCall[k].value # None
    /\ \E k \in DOMAIN RankingsCall : RankingsCall[k].error # None

\* C5: a disqualified RaceResult has no value and carries the synthesized
\* error "Racer timed out".
C5_DisqualifiedImpliesTimeoutError ==
    \A k \in DOMAIN rankings :
        rankings[k].disqualified =>
            rankings[k].value = None /\ rankings[k].error = Some(TimeoutText)

\* A disqualified result is ranked next to a racer's own error.
C5_Witness ==
    /\ \E k \in DOMAIN rankings : rankings[k].disqualified
    /\ \E k \in DOMAIN rankings :
          ~rankings[k].disqualified /\ rankings[k].error = Some("boom")

\* C6: run() is a barrier: when it returns, every racer that was pending at
\* its start has produced its own outcome or been disqualified, and none of
\* them is still unreported.
Reported(id) == \E k \in DOMAIN rankings : rankings[k].id = id
Finished(id) == \E k \in DOMAIN finishOrder : finishOrder[k] = id
C6_Barrier ==
    [][(pc = "run" /\ pc' = "idle" /\ lastRun' = "returned") =>
          /\ \A k \in DOMAIN taken : Finished(taken[k].id) /\ Reported(taken[k].id)
          /\ \A id \in DOMAIN task : task[id].state \notin {"spawned", "running"}
          /\ tasks = {}]_vars

\* run() returned with one racer disqualified and one reporting its own outcome.
C6_Witness ==
    /\ Returned
    /\ Len(taken) = 2
    /\ \E k \in DOMAIN rankings : rankings[k].disqualified
    /\ \E k \in DOMAIN rankings : rankings[k].own

\* C7 as stated: every run() eventually returns.
C7_AlwaysReturns == (pc = "run") ~> Returned

\* C7 amended: every run() the caller awaits eventually ends, also when
\* racers never complete: it returns, or it unwinds with the panic of a
\* racer's task.
C7_AlwaysEnds ==
    (pc = "run") ~> (pc = "idle" /\ lastRun \in {"returned", "aborted"})

\* run() returned although both its racers never completed: both are
\* disqualified.
C7_Witness ==
    /\ Returned
    /\ Len(taken) = 2
    /\ \A k \in DOMAIN rankings : rankings[k].disqualified
    /\ Len(RankingsCall) = 2

\* C8: racers are consumed by run(): every racer is spawned exactly once, by
\* the first run() after it was added; no racer is pending while or right
\* after run() (racers cannot be added during a run), and a run() that found
\* no pending racer spawns nothing.
PendingIds == {racers[k].id : k \in DOMAIN racers}
LocalIds == {local[k].id : k \in DOMAIN local}
C8_ConsumedOnce ==
    /\ \A id \in 1..MaxRacers :
          executed[id] =
             IF id < nextId /\ id \notin PendingIds /\ id \notin LocalIds THEN 1 ELSE 0
    /\ pc = "run" => racers = <<>>
    /\ pc = "idle" /\ lastRun # "none" => PendingIds \cap TakenIds = {}
    /\ pc = "run" /\ taken = <<>> => local = <<>> /\ DOMAIN task = {}

\* A second run() was called with no racer added since the first, which had
\* spawned one.
C8_Witness ==
    /\ pc = "run"
    /\ taken = <<>>
    /\ executed[1] = 1
    /\ nextId = 2

\* C9: every run() discards the previous ranking: after it returned,
\* rankings() holds only results of racers of that run, and nothing if that
\* run found no racer pending.
C9_FreshRun ==
    Returned =>
        LET got == RankingsCall IN
        /\ \A k \in DOMAIN got : got[k].id \in TakenIds
        /\ taken = <<>> => got = <<>>

\* A second run(), of the racer added after a first run, has returned.
C9_Witness ==
    /\ Returned
    /\ Len(taken) = 1
    /\ taken[1].id = 2
    /\ executed[1] = 1
    /\ Len(RankingsCall) = 1

\* C10: in every reachable state the rank indices are 0..n-1 for the n
\* results stored, whatever the mix of outcomes.
C10_DenseRanks ==
    DOMAIN rankings = 0..(Cardinality(DOMAIN rankings) - 1)

\* In the middle of a run, a disqualified result is stored and a task is
\* still to be ranked.
C10_Witness ==
    /\ pc = "run"
    /\ tasks # {}
    /\ \E k \in DOMAIN rankings : rankings[k].disqualified

\* C11: every value rankings() returns is a complete ranking: the ranking of
\* a run() that returned, or, when no run() has returned since, the ranking
\* as it was before the run (which holds no result of the racers that run
\* took).
CompleteRanking(got) ==
    /\ Len(got) = Len(taken)
    /\ \A k \in DOMAIN taken : Count(got, LAMBDA r : r.id = taken[k].id) = 1
C11_NoPartialRanking ==
    seen # None =>
        IF lastRun \in {"aborted", "abandoned"}
        THEN \A k \in DOMAIN seen[1] : seen[1][k].id \notin TakenIds
        ELSE CompleteRanking(seen[1])

\* C12: a racer's internal failure is contained.  The poll in which a racer's
\* future yields Err(m) completes its task with a RaceResult that is not
\* disqualified, has no value and has the error m; the task is left as a poll
\* yielding Ok would leave it but for value and error; no other task, nor the
\* ranking store, nor the run itself is touched by it.
ErrPoll(m) == [kind |-> "err", val |-> 0, msg |-> m]
OkPoll(v) == [kind |-> "ok", val |-> v, msg |-> ""]
SameButOutcome(r, q) ==
    /\ r.id = q.id
    /\ r.name = q.name
    /\ r.duration = q.duration
    /\ r.disqualified = q.disqualified
C12_FailureContained ==
    [][\A id \in DOMAIN task, m \in Messages :
          TaskPoll(id, ErrPoll(m)) =>
             /\ task'[id].state = "complete"
             /\ task'[id].out # None
             /\ LET r == task'[id].out[1] IN
                  /\ ~r.disqualified
                  /\ r.value = None
                  /\ r.error = Some(m)
                  /\ \A v \in Values :
                       LET ok == TaskAfterPoll(id, task[id], OkPoll(v)) IN
                       /\ ok.state = "complete"
                       /\ SameButOutcome(r, ok.out[1])
                       /\ [ok EXCEPT !.out = None] = [task'[id] EXCEPT !.out = None]
             /\ \A j \in DOMAIN task \ {id} : task'[j] = task[j]
             /\ DOMAIN task' = DOMAIN task
             /\ UNCHANGED <<rankings, racers, pc, lastRun, tasks, local, i>>]_vars

\* run() returned with a racer's own failure ranked next to a value.
C12_Witness ==
    /\ Returned
    /\ \E k \in DOMAIN rankings :
          /\ rankings[k].own
          /\ ~rankings[k].disqualified
          /\ rankings[k].error = Some("boom")
    /\ \E k \in DOMAIN rankings : rankings[k].value # None

\* C13: within one run, the racers whose computations completed within the
\* deadline are ranked in ascending order of completion, not disqualified
\* and with their own value, and every racer that exceeded the deadline is
\* ranked after all of them.
FinishPos(id) == CHOOSE k \in DOMAIN finishOrder : finishOrder[k] = id
WithinDeadline(r) == r.own /\ r.duration <= timeout
C13_WithinDeadlineFirstInOrder ==
    Returned =>
        \A a, b \in DOMAIN rankings :
            /\ WithinDeadline(rankings[a]) =>
                  /\ ~rankings[a].disqualified
                  /\ rankings[a].res.ok => rankings[a].value = Some(rankings[a].res.val)
            /\ (a < b /\ WithinDeadline(rankings[a]) /\ WithinDeadline(rankings[b])) =>
                  FinishPos(rankings[a].id) < FinishPos(rankings[b].id)
            /\ (WithinDeadline(rankings[a]) /\ ~WithinDeadline(rankings[b])) => a < b

\* C14: two racers of the same run that both exceeded the deadline are
\* ranked in registration order.
RegistrationPos(id) == CHOOSE k \in DOMAIN taken : taken[k].id = id
C14_TimeoutsInRegistrationOrder ==
    Returned =>
        \A a, b \in DOMAIN rankings :
            (a < b /\ rankings[a].disqualified /\ rankings[b].disqualified) =>
                RegistrationPos(rankings[a].id) < RegistrationPos(rankings[b].id)

\* C15: rankings() is read-only and repeatable: a call changes neither the
\* ranking store, the pending list nor the deadline (nor anything else of
\* the track), it returns the stored results in rank order, and calls with
\* no run() in between return equal values.
C15_ReadOnlyRepeatable ==
    [][(seen' # None /\ seen' # seen) =>
          /\ seen = None
          /\ seen' = Some(RankingsCall)
          /\ UNCHANGED <<timeout, racers, rankings, pc, local, tasks, readyQ,
                         i, task>>]_vars

\* rankings() has returned the result of a run, a racer was added since and
\* a further call would return the same.
C15_Witness ==
    /\ seen # None
    /\ Len(seen[1]) = 1
    /\ seen[1] = RankingsCall
    /\ racers # <<>>
    /\ pc = "idle"

\* C16: add_racer only appends one racer to the end of the pending list: it
\* starts no computation and leaves the ranking store and the deadline
\* unchanged, so rankings() returns after it what it returned before.
C16_AddRacerOnlyAppends ==
    [][nextId' # nextId =>
          /\ \E name \in Names :
                racers' = Append(racers, [id |-> nextId, name |-> name])
          /\ UNCHANGED <<rankings, timeout, task, tasks, readyQ, executed, pc>>
          /\ RankingsCall' = RankingsCall
          /\ executed[nextId] = 0]_vars

\* A racer was added after a run that ranked one result: it was not
\* started and the ranking of that run is still what rankings() returns.
C16_Witness ==
    /\ pc = "idle"
    /\ Len(racers) = 1
    /\ lastRun = "returned"
    /\ Len(RankingsCall) = 1
    /\ executed[racers[1].id] = 0

\* C17: every racer is raced against its own deadline timer and all run
\* concurrently.  run() polls no handle (ranks nothing, parks nothing)
\* before every racer it took is spawned; every task carries the track's
\* deadline; whatever the other tasks do, an unfinished task can be polled:
\* a spawned one is started, and one whose deadline elapsed is disqualified
\* by that poll.
Unfinished(id) == task[id].state \in {"spawned", "running"}
C17_IndependentConcurrentRaces ==
    /\ (pc = "run" /\ local # <<>>) =>
          /\ rankings = EmptyMap
          /\ i = 0
          /\ \A id \in DOMAIN task : ~task[id].waker
          /\ readyQ = [k \in 1..(Len(taken) - Len(local)) |-> taken[k].id]
    /\ (pc = "run" /\ local = <<>>) =>
          \A k \in DOMAIN taken : executed[taken[k].id] = 1
    /\ \A id \in DOMAIN task :
          /\ task[id].timeout = timeout
          /\ Unfinished(id) =>
                /\ ENABLED TaskPoll(id, Pending)
                /\ task[id].elapsed >= task[id].timeout =>
                      LET after == TaskAfterPoll(id, task[id], Pending) IN
                      after.state = "complete" /\ after.out[1].disqualified

\* One racer's task is still running short of its deadline while the other,
\* spawned after it, has reached its own deadline.
C17_Witness ==
    /\ pc = "run"
    /\ DOMAIN task = {1, 2}
    /\ task[1].state = "running" /\ task[1].elapsed < task[1].timeout
    /\ task[2].state = "running" /\ task[2].elapsed >= task[2].timeout

\* C18: run() aborts only on a handle whose task panicked.  Such a task
\* carries no RaceResult, the abort records nothing (the racer of the
\* panicked task is not in the ranking), and a poll in which the racer
\* returns Ok, returns Err or stays pending, deadline elapsed or not, never
\* leaves the task panicked: the task completes with a RaceResult or keeps
\* running, and run() goes on.
C18_AbortOnlyOnPanickedTask ==
    [][/\ (pc = "run" /\ pc' = "idle" /\ lastRun' = "aborted") =>
             /\ readyQ # <<>>
             /\ task[Head(readyQ)].state = "panicked"
             /\ task[Head(readyQ)].out = None
             /\ \A k \in DOMAIN rankings' : rankings'[k].id # Head(readyQ)
             /\ rankings' = rankings
       /\ \A id \in DOMAIN task : \A p \in FutPolls :
             (p.kind # "panic" /\ TaskPoll(id, p)) =>
                 /\ task'[id].state \in {"running", "complete"}
                 /\ task'[id].state = "complete" => task'[id].out # None
                 /\ (p.kind = "pending" /\ task[id].elapsed >= task[id].timeout)
                       => task'[id].out # None /\ task'[id].out[1].disqualified
                 /\ pc' = "run"
                 /\ lastRun' = lastRun
       /\ \A id \in DOMAIN task :
             (task[id].state # "panicked" /\ task'= [task EXCEPT ![id].state = "panicked"])
                 => TaskPoll(id, [kind |-> "panic", val |-> 0, msg |-> ""])]_vars

\* A run aborted after it had ranked a racer that returned an error: the
\* error did not abort it, the panic of the other racer's task did.
C18_Witness ==
    /\ pc = "idle"
    /\ lastRun = "aborted"
    /\ Len(taken) = 2
    /\ \E k \in DOMAIN rankings :
          /\ rankings[k].id \in TakenIds
          /\ rankings[k].error # None
    /\ \E k \in DOMAIN taken : ~Reported(taken[k].id) /\ executed[taken[k].id] = 1

\* C19: the ranking store never mixes runs.  In every state, in the middle
\* of a run() or between runs, every stored result is the result of a racer
\* taken by the latest run() and finished in it, no racer is stored twice,
\* and while run() is still spawning its racers the store is empty.
C19_NeverMixesRuns ==
    /\ \A k \in DOMAIN rankings :
          /\ rankings[k].id \in TakenIds
          /\ Finished(rankings[k].id)
          /\ \A j \in DOMAIN rankings : rankings[j].id = rankings[k].id => j = k
    /\ (pc = "run" /\ local # <<>>) => rankings = EmptyMap

\* A second run() is in progress and has stored a result, after an earlier
\* run that had taken and executed another racer.
C19_Witness ==
    /\ pc = "run"
    /\ rankings # EmptyMap
    /\ \E id \in 1..MaxRacers : executed[id] = 1 /\ id \notin TakenIds

\* C20: the step that starts run() leaves the pending list and the ranking
\* empty with no task spawned yet, and takes only racers never executed
\* before.  The step that ends run() by an abort or by abandoning it leaves
\* the pending list empty and the ranking as the ended run had built it, so
\* holding only racers of that run; no racer is ever executed twice.
C20_TakenRacersAreConsumed ==
    [][/\ (pc = "idle" /\ pc' = "run") =>
             /\ racers' = <<>>
             /\ rankings' = EmptyMap
             /\ task' = EmptyMap /\ finishOrder' = <<>>
             /\ taken' = racers
             /\ \A k \in DOMAIN racers : executed[racers[k].id] = 0
             /\ \A k \in DOMAIN racers : racers[k].id \notin TakenIds
       /\ (pc = "run" /\ pc' = "idle" /\ lastRun' \in {"aborted", "abandoned"}) =>
             /\ racers' = <<>>
             /\ taken' = taken
             /\ \A k \in DOMAIN taken : executed'[taken[k].id] = 1
             /\ rankings' = rankings
             /\ \A k \in DOMAIN rankings' : rankings'[k].id \in TakenIds
             /\ Len(MapValues(rankings')) < Len(taken)
       /\ \A id \in 1..MaxRacers :
             executed'[id] # executed[id] => executed[id] = 0 /\ executed'[id] = 1]_vars

\* After a run that ranked a racer, a second run took another racer and
\* aborted or was abandoned: nothing is pending, the store is empty.
C20_Witness ==
    /\ pc = "idle"
    /\ lastRun \in {"aborted", "abandoned"}
    /\ Len(taken) = 1
    /\ racers = <<>>
    /\ rankings = EmptyMap
    /\ \E id \in 1..MaxRacers : executed[id] = 1 /\ id \notin TakenIds

====
